---- MODULE Spec2Model ----
(***************************************************************************)
(* Model of the BOM extractor: the batch driver of batch-processor.js      *)
(* (src/components/BatchProcessorInstructions.tsx, scriptContent), the      *)
(* per-document extraction pipeline of both the batch script                *)
(* (extractBomFromPdf) and the web app (extractBomFromFile,                 *)
(* src/unnamed/part_001), and the web app's state and export (src/App.tsx,  *)
(* src/unnamed/part_002).                                                   *)
(*                                                                          *)
(* Spec      the batch driver main(): groups of BATCH_SIZE document tasks.  *)
(* LogSpec   the same driver with its log file kept line by line.           *)
(* GroupLogSpec  the driver of LogSpec over listings that span two groups.  *)
(* PipeSpec  one document through the extraction pipeline on either path,   *)
(*           with the model's response and the cleaning rules computed on   *)
(*           JavaScript values (strings are sequences of characters).       *)
(* AppSpec   the handlers of App and ExportButton: selection, validation,   *)
(*           analysis, restart, the combine toggle and the export.          *)
(***************************************************************************)
EXTENDS Integers, Sequences, FiniteSets, TLC

VARIABLES
    \* ---- batch driver (main) ----
    pc,             \* position of main()
    envKey,         \* process.env.GEMINI_API_KEY as main found it: "unknown", "set", "unset"
    inputDir,       \* the input path as main found it: "unknown", "missing" (access
                    \* fails), "unlistable" (it exists, readdir fails), "ok"
    outputDir,      \* the output path as main found it: "unknown", "blocked", "ok"
    logStream,      \* the module-level logStream: "undefined", "open", "ended"
    fullLog,        \* whether logLines keeps the log file line by line (LogSpec); Spec
                    \* keeps its lines per writer only, in runLog and docLog
    logLines,       \* the lines written to logStream, in order
    runLog,         \* the lines main() itself logged (console and file), in order
    exitCode,       \* -1 while the process runs, else the exit status
    pdfFiles,       \* the filtered directory listing
    i,              \* loop variable of the group loop
    batch,          \* the current group (pdfFiles.slice(i, i + BATCH_SIZE))
    batches,        \* every group formed so far, in order (the "Processing Batch k" headers)
    filesProcessed, \* counter behind the progress prefix
    successCount,
    errorCount,
    status,         \* per position of pdfFiles: the task's state
    progress,       \* per position: the index of its progress prefix (0: not launched)
    docLog,         \* per position: the log lines carrying that document's prefix
    saved,          \* the positions whose table saveToExcel has written
    report,         \* the count lines of the final summary
    \* ---- one document's extraction pipeline ----
    path,           \* "interactive" (extractBomFromFile) or "batch" (extractBomFromPdf)
    entryPoint,     \* "select": the document comes through the web app's file selection
                    \* (handleFilesSelect) first; "call": the extraction is called directly
    rejection,      \* what the validation of the file selection returned for the document
    file,           \* the document handed to the pipeline
    apiKey,         \* whether the credential is set in the environment
    reply,          \* what the inference call will answer for this document
    stage,          \* position of the pipeline
    parts,          \* allFileParts
    requests,       \* every generateContent request issued, in order
    pipeError,      \* why the pipeline threw ("none" while it has not)
    result,         \* the returned BomItem list (a sequence of objects)
    \* ---- the web app (App, ExportButton) ----
    selectedFiles,  \* useState<File[]>
    analyzedData,   \* useState<AnalyzedFile[]>
    isLoading,      \* useState<boolean>
    error,          \* useState<string | null>: "none" (null), "nobom", "failed"
    fileError,      \* useState<string | null>: the error entries joined (<<>>: null)
    progressMessage, \* useState<string | null>: the number of documents named (0: null)
    combineExport,  \* useState<boolean>
    effectPending,  \* the render committed last has the toggle disabled and the flag
                    \* off, and its effect (useEffect on isCombineDisabled) has not run
    latestFiles,    \* the FileList of the latest selection or drop (<<>>: none since the
                    \* first render or the last Restart, which empties the file input)
    validations,    \* the handleFilesSelect calls awaiting their Promise.all
    analyses,       \* the handleAnalyzeClick calls awaiting their Promise.all
    exports,        \* the handleExport calls awaiting zip.generateAsync: their archives
    download        \* the file the step just taken handed to the browser, if any

batchVars == <<pc, envKey, inputDir, outputDir, logStream, fullLog, logLines, runLog,
               exitCode, pdfFiles, i, batch, batches, filesProcessed,
               successCount, errorCount, status, progress, docLog, saved, report>>
pipeVars == <<path, entryPoint, rejection, file, apiKey, reply, stage, parts, requests,
              pipeError, result>>
appVars == <<selectedFiles, analyzedData, isLoading, error, fileError, progressMessage,
             combineExport, effectPending, latestFiles, validations, analyses, exports,
             download>>
vars == <<pc, envKey, inputDir, outputDir, logStream, fullLog, logLines, runLog,
          exitCode, pdfFiles, i, batch, batches, filesProcessed,
          successCount, errorCount, status, progress, docLog, saved, report,
          path, entryPoint, rejection, file, apiKey, reply, stage, parts, requests,
          pipeError, result,
          selectedFiles, analyzedData, isLoading, error, fileError, progressMessage,
          combineExport, effectPending, latestFiles, validations, analyses, exports,
          download>>

\* ------------------------------------------------------------------ bounds
MaxFiles == 6
MaxOther == 1
MaxPages == 2
MaxNumLen == 3
MaxChunks == 2
MaxLogFiles == 3
MaxSelect == 3
MaxItems == 2
MaxPending == 1

\* ------------------------------------------------------------------ helpers
Min(a, b) == IF a < b THEN a ELSE b

\* Math.ceil(a / b) for a >= 0, b > 0
Ceil(a, b) == (a + b - 1) \div b

RECURSIVE Flatten(_)
Flatten(ss) == IF ss = <<>> THEN <<>> ELSE Head(ss) \o Flatten(Tail(ss))

\* ================================================================== batch driver
BATCH_SIZE == 5

\* Array.prototype.slice(a, b) for 0 <= a <= b (a 0-based, b exclusive)
SliceOffByOne(s, a, b) ==
    LET lo == Min(a, Len(s))
        hi == Min(b + 1, Len(s))
    IN  [k \in 1..(hi - lo) |-> s[lo + k]]

Slice(s, a, b) ==
    LET lo == Min(a, Len(s))
        hi == Min(b, Len(s))
    IN  [k \in 1..(hi - lo) |-> s[lo + k]]

\* path.extname(file).toLowerCase() === '.pdf'
IsPdfName(entry) == entry.ext \in {".pdf", ".PDF", ".Pdf"}

RECURSIVE FilterPdf(_)
FilterPdf(listing) ==
    IF listing = <<>> THEN <<>>
    ELSE IF IsPdfName(Head(listing)) THEN <<Head(listing)>> \o FilterPdf(Tail(listing))
    ELSE FilterPdf(Tail(listing))

\* The directory listings fsp.readdir may return: n PDF documents named 1..n (the
\* extension in either case) and o entries that are no PDF, before or after them.
PdfEntry(k) == [name |-> k, ext |-> IF k % 2 = 0 THEN ".PDF" ELSE ".pdf"]
OtherEntry(k) == [name |-> 100 + k, ext |-> ".txt"]
Listing(n, o, front) ==
    LET pdfs == [k \in 1..n |-> PdfEntry(k)]
        others == [k \in 1..o |-> OtherEntry(k)]
    IN  IF front THEN others \o pdfs ELSE pdfs \o others
Listings == { Listing(n, o, f) : n \in 0..MaxFiles, o \in 0..MaxOther, f \in BOOLEAN }
\* The listings of the runs whose log file is kept line by line.
LogListings == { Listing(n, o, f) : n \in 0..MaxLogFiles, o \in 0..MaxOther, f \in BOOLEAN }

Settled == {"exported", "warned", "failed"}
InFlight == {"reading", "inferring"}

\* The positions (1-based) of pdfFiles that slice(idx, idx + BATCH_SIZE) covers.
BatchPositions(idx, n) == { p \in 1..n : idx < p /\ p <= idx + BATCH_SIZE }

\* Promise.all(promises) is fulfilled: every task of the group has settled.
AnySettled(idx) ==
    \E p \in BatchPositions(idx, Len(pdfFiles)) : status[p] \in Settled

AllSettled(idx) ==
    \A p \in BatchPositions(idx, Len(pdfFiles)) : status[p] \in Settled

\* A line of the log: the document whose prefix it carries (0: a line of main itself)
\* and which message it is.
Line(p, kind) == [doc |-> p, kind |-> kind]
DocLines(p, kinds) == [k \in 1..Len(kinds) |-> Line(p, kinds[k])]

\* log(message) while logStream is set, once for each line: logStream.write of the
\* whole line, synchronously, so in call order.
LogPrepended(lines) ==
    logLines' = IF fullLog THEN lines \o logLines ELSE logLines

Log(lines) ==
    logLines' = IF fullLog THEN logLines \o lines ELSE logLines

\* The lines main() itself logs.
MainLog(kinds) ==
    /\ runLog' = runLog \o kinds
    /\ Log(DocLines(0, kinds))

\* The iteration with the counter behind the prefix started anew at every group.
LaunchGroupRestarted(files, idx, fp, before) ==
    LET grp == Slice(files, idx, idx + BATCH_SIZE)
    IN  /\ runLog' = runLog \o before \o <<"batch">>
        /\ Log(DocLines(0, before \o <<"batch">>)
               \o [k \in 1..Len(grp) |-> Line(idx + k, "analyzing")])
        /\ batch' = grp
        /\ batches' = Append(batches, grp)
        /\ i' = idx
        /\ filesProcessed' = Len(grp)
        /\ status' = [p \in 1..Len(files) |->
                        IF idx < p /\ p <= idx + Len(grp) THEN "reading"
                        ELSE IF p \in DOMAIN status THEN status[p] ELSE "pending"]
        /\ progress' = [p \in 1..Len(files) |->
                        IF idx < p /\ p <= idx + Len(grp) THEN p - idx
                        ELSE IF p \in DOMAIN progress THEN progress[p] ELSE 0]
        /\ docLog' = [p \in 1..Len(files) |->
                        IF idx < p /\ p <= idx + Len(grp) THEN <<"analyzing">>
                        ELSE IF p \in DOMAIN docLog THEN docLog[p] ELSE <<>>]

\* One iteration of the for loop up to `await Promise.all`: the header line, the
\* group is sliced and batch.map runs every callback synchronously up to its first
\* await (readFile): filesProcessed++, the prefix, the "Analyzing" line.
LaunchGroup(files, idx, fp, before) ==
    LET grp == Slice(files, idx, idx + BATCH_SIZE)
    IN  /\ runLog' = runLog \o before \o <<"batch">>
        /\ Log(DocLines(0, before \o <<"batch">>)
               \o [k \in 1..Len(grp) |-> Line(idx + k, "analyzing")])
        /\ batch' = grp
        /\ batches' = Append(batches, grp)
        /\ i' = idx
        /\ filesProcessed' = fp + Len(grp)
        /\ status' = [p \in 1..Len(files) |->
                        IF idx < p /\ p <= idx + Len(grp) THEN "reading"
                        ELSE IF p \in DOMAIN status THEN status[p] ELSE "pending"]
        /\ progress' = [p \in 1..Len(files) |->
                        IF idx < p /\ p <= idx + Len(grp) THEN fp + (p - idx)
                        ELSE IF p \in DOMAIN progress THEN progress[p] ELSE 0]
        /\ docLog' = [p \in 1..Len(files) |->
                        IF idx < p /\ p <= idx + Len(grp) THEN <<"analyzing">>
                        ELSE IF p \in DOMAIN docLog THEN docLog[p] ELSE <<>>]

\* The validation callback's result: { file } or { error } (its kind, and the page
\* count the message names).
Accepted == [ok |-> TRUE, kind |-> "none", pages |-> 0]
Rejected(kind, pages) == [ok |-> FALSE, kind |-> kind, pages |-> pages]

PipeIdle ==
    /\ path = "none" /\ file = "none" /\ apiKey = TRUE /\ reply = "none" /\ stage = "idle"
    /\ entryPoint = "none" /\ rejection = Accepted
    /\ parts = <<>> /\ requests = <<>> /\ pipeError = "none" /\ result = <<>>

\* The state of App at its first render.
NoDownload == [kind |-> "none", name |-> <<>>, rows |-> <<>>, entries |-> <<>>]
AppState ==
    /\ selectedFiles = <<>> /\ analyzedData = <<>> /\ isLoading = FALSE
    /\ error = "none" /\ fileError = <<>> /\ progressMessage = 0
    /\ combineExport = TRUE /\ effectPending = FALSE
    /\ latestFiles = <<>>
    /\ validations = <<>> /\ analyses = <<>> /\ exports = <<>> /\ download = NoDownload

BatchState ==
    /\ pc = "start" /\ logStream = "undefined" /\ exitCode = -1
    /\ envKey = "unknown" /\ inputDir = "unknown" /\ outputDir = "unknown"
    /\ logLines = <<>> /\ runLog = <<>>
    /\ pdfFiles = <<>> /\ i = 0 /\ batch = <<>> /\ batches = <<>>
    /\ filesProcessed = 0 /\ successCount = 0 /\ errorCount = 0
    /\ status = <<>> /\ progress = <<>> /\ docLog = <<>> /\ saved = {}
    /\ report = <<>>

BatchInit == BatchState /\ fullLog = FALSE

Init == BatchInit /\ PipeIdle /\ AppState

LogInit == BatchState /\ fullLog = TRUE /\ PipeIdle /\ AppState

\* main() up to `await fsp.access`: the first line and the argument check (before the
\* log stream exists: console only), createWriteStream, the credential check.
MainStart ==
    /\ pc = "start"
    /\ \E argsOk \in BOOLEAN, hasKey \in BOOLEAN :
         IF ~argsOk THEN
            /\ pc' = "exit" /\ exitCode' = 1
            /\ runLog' = runLog \o <<"starting", "usage">>
            /\ UNCHANGED <<logStream, logLines, envKey>>
         ELSE IF ~hasKey THEN
            /\ pc' = "exit" /\ exitCode' = 1 /\ logStream' = "open"
            /\ envKey' = "unset"
            /\ runLog' = runLog \o <<"starting", "nokey">>
            /\ Log(DocLines(0, <<"nokey">>))
         ELSE
            /\ pc' = "access" /\ logStream' = "open" /\ UNCHANGED exitCode
            /\ envKey' = "set"
            /\ runLog' = runLog \o <<"starting">>
            /\ UNCHANGED logLines
    /\ UNCHANGED <<inputDir, outputDir, fullLog, pdfFiles, i, batch, batches,
                   filesProcessed, successCount, errorCount, status, progress, docLog,
                   saved, report>>
    /\ UNCHANGED <<pipeVars, appVars>>

\* await fsp.access(inputDir) (mode F_OK: the path exists); await fsp.mkdir(outputDir,
\* { recursive: true }): the catch logs and exits with 1. Then the three lines naming
\* the folders and the log file, up to `await fsp.readdir`.
AccessDirs ==
    /\ pc = "access"
    /\ \E d \in {"missing", "unlistable", "ok"}, o \in {"blocked", "ok"} :
         IF d = "missing" THEN
            /\ inputDir' = d /\ UNCHANGED outputDir
            /\ pc' = "exit" /\ exitCode' = 1 /\ MainLog(<<"noaccess">>)
         ELSE IF o = "blocked" THEN
            /\ inputDir' = d /\ outputDir' = o
            /\ pc' = "exit" /\ exitCode' = 1 /\ MainLog(<<"noaccess">>)
         ELSE
            /\ inputDir' = d /\ outputDir' = o
            /\ pc' = "readdir" /\ UNCHANGED exitCode
            /\ MainLog(<<"input", "output", "logging">>)
    /\ UNCHANGED <<envKey, logStream, fullLog, pdfFiles, i, batch, batches,
                   filesProcessed, successCount, errorCount, status, progress, docLog,
                   saved, report>>
    /\ UNCHANGED <<pipeVars, appVars>>

\* The continuation of `await fsp.readdir`: filter, the empty return, and the first
\* iteration of the group loop up to its await; listings are the directory
\* contents readdir may return.
ReadDir(listings) ==
    /\ pc = "readdir" /\ inputDir = "ok"
    /\ \E listing \in listings :
         LET files == FilterPdf(listing) IN
         /\ pdfFiles' = files
         /\ IF Len(files) = 0 THEN
               /\ pc' = "returned" /\ exitCode' = 0
               /\ MainLog(<<"nopdf">>)
               /\ UNCHANGED <<i, batch, batches, filesProcessed, status, progress, docLog>>
            ELSE
               /\ pc' = "await_group" /\ UNCHANGED exitCode
               /\ LaunchGroup(files, 0, 0, <<"found">>)
    /\ UNCHANGED <<envKey, inputDir, outputDir, logStream, fullLog, successCount,
                   errorCount, saved, report>>
    /\ UNCHANGED <<pipeVars, appVars>>

\* fsp.readdir rejects (the input path is no directory, or one that may not be
\* read): main() rejects, main().catch logs and ends the stream, and the process
\* ends with status 0.
ReadDirFails ==
    /\ pc = "readdir" /\ inputDir = "unlistable"
    /\ pc' = "caught" /\ logStream' = "ended" /\ exitCode' = 0
    /\ MainLog(<<"unexpected">>)
    /\ UNCHANGED <<envKey, inputDir, outputDir, fullLog, pdfFiles, i, batch, batches,
                   filesProcessed, successCount, errorCount, status, progress, docLog,
                   saved, report>>
    /\ UNCHANGED <<pipeVars, appVars>>

\* A task settles: its status, its log lines and the counters.
TaskSettle(p, st, lines, dSuccess, dError) ==
    /\ status' = [status EXCEPT ![p] = st]
    /\ docLog' = [docLog EXCEPT ![p] = @ \o lines]
    /\ Log(DocLines(p, lines))
    /\ saved' = IF st = "exported" THEN saved \cup {p} ELSE saved
    /\ successCount' = successCount + dSuccess
    /\ errorCount' = errorCount + dError
    /\ UNCHANGED <<envKey, inputDir, outputDir, logStream, fullLog, runLog, exitCode,
                   pdfFiles, i, batch, batches, filesProcessed, progress, report>>

\* A task whose catch rethrew: Promise.all rejects and main().catch ends the run.
CatchErrorRethrow(p, lines) ==
    /\ TaskSettle(p, "failed", lines \o <<"error">>, 0, 1)
    /\ pc' = "caught"

\* catch (e) { log(... Error processing ...); errorCount++; } of the task callback.
CatchError(p, lines) ==
    /\ TaskSettle(p, "failed", lines \o <<"error">>, 0, 1)
    /\ pc' = pc

\* The else branch of the task callback: the warning line, and no counter.
WarnEmptyCounted(p) ==
    /\ TaskSettle(p, "warned", <<"warning">>, 0, 1)
    /\ pc' = pc

WarnEmpty(p) ==
    /\ TaskSettle(p, "warned", <<"warning">>, 0, 0)
    /\ pc' = pc

\* pdfToGenerativeParts settles: readFile / PDFDocument.load / copyPages threw, or
\* the parts are built and generateContent is called (the request is outstanding).
TaskRead(p) ==
    /\ pc = "await_group"
    /\ p \in DOMAIN status /\ status[p] = "reading"
    /\ \E ok \in BOOLEAN :
         IF ok THEN
            /\ status' = [status EXCEPT ![p] = "inferring"]
            /\ UNCHANGED <<pc, envKey, inputDir, outputDir, logStream, fullLog,
                           logLines, runLog, exitCode, pdfFiles, i, batch, batches,
                           filesProcessed, successCount, errorCount, progress, docLog,
                           saved, report>>
         ELSE CatchError(p, <<>>)
    /\ UNCHANGED <<pipeVars, appVars>>

\* generateContent settles and the callback runs to its end: the call, JSON.parse or
\* the cleaning threw; or the items are empty (warning); or they are saved (which
\* may throw after the two lines before it are logged).
TaskRespond(p) ==
    /\ pc = "await_group"
    /\ p \in DOMAIN status /\ status[p] = "inferring"
    /\ \E outcome \in {"throws", "empty", "items", "saveThrows"} :
         CASE outcome = "throws" -> CatchError(p, <<>>)
           [] outcome = "empty" -> WarnEmpty(p)
           [] outcome = "items" ->
                TaskSettle(p, "exported", <<"complete", "saving", "exported">>, 1, 0)
                /\ pc' = pc
           [] outcome = "saveThrows" -> CatchError(p, <<"complete", "saving">>)
    /\ UNCHANGED <<pipeVars, appVars>>

\* The continuation of `await Promise.all(promises)`: the next iteration, or the
\* summary and logStream.end().
GroupDone ==
    /\ pc = "await_group"
    /\ AllSettled(i)
    /\ IF i + BATCH_SIZE < Len(pdfFiles) THEN
          /\ LaunchGroup(pdfFiles, i + BATCH_SIZE, filesProcessed, <<>>)
          /\ UNCHANGED <<pc, logStream, exitCode, report>>
       ELSE
          /\ pc' = "done" /\ logStream' = "ended" /\ exitCode' = 0
          /\ report' = <<[label |-> "Successful exports", count |-> successCount],
                         [label |-> "Failed files", count |-> errorCount]>>
          /\ MainLog(<<"summary", "successful", "failedFiles", "rule">>)
          /\ UNCHANGED <<i, batch, batches, filesProcessed, status, progress, docLog>>
    /\ UNCHANGED <<envKey, inputDir, outputDir, fullLog, pdfFiles, successCount,
                   errorCount, saved>>
    /\ UNCHANGED <<pipeVars, appVars>>

Next ==
    \/ MainStart
    \/ AccessDirs
    \/ ReadDir(IF fullLog THEN LogListings ELSE Listings)
    \/ ReadDirFails
    \/ \E p \in 1..(MaxFiles + 1) : TaskRead(p)
    \/ \E p \in 1..(MaxFiles + 1) : TaskRespond(p)
    \/ GroupDone

Spec == Init /\ [][Next]_vars

\* The same run with its log file kept line by line.
LogSpec == LogInit /\ [][Next]_vars

\* The run of LogSpec where readdir may also find one document more than a group
\* holds, so that the loop runs a second group.
GroupNext ==
    \/ MainStart
    \/ AccessDirs
    \/ ReadDir(LogListings \cup { Listing(BATCH_SIZE + 1, o, f) :
                                      o \in 0..MaxOther, f \in BOOLEAN })
    \/ ReadDirFails
    \/ \E p \in 1..(MaxFiles + 1) : TaskRead(p)
    \/ \E p \in 1..(MaxFiles + 1) : TaskRespond(p)
    \/ GroupDone

GroupLogSpec == LogInit /\ [][GroupNext]_vars

\* ================================================================== JavaScript values
\* A value is a record of one shape: t is "undefined", "null", "string", "number" or
\* "nan" (the number NaN); a string is its sequence of characters s; a finite number
\* is (-1)^neg * m / 10^e with m >= 0 and no trailing zero in the fraction. Zero has
\* one representation (0 and -0 are equal under === and print alike).
Undef == [t |-> "undefined", s |-> <<>>, neg |-> FALSE, m |-> 0, e |-> 0]
Null == [t |-> "null", s |-> <<>>, neg |-> FALSE, m |-> 0, e |-> 0]
NaN == [t |-> "nan", s |-> <<>>, neg |-> FALSE, m |-> 0, e |-> 0]
Str(chars) == [t |-> "string", s |-> chars, neg |-> FALSE, m |-> 0, e |-> 0]

RECURSIVE Pow10(_)
Pow10(k) == IF k = 0 THEN 1 ELSE 10 * Pow10(k - 1)

RECURSIVE Canon(_, _, _)
Canon(neg, m, e) ==
    IF m = 0 THEN [t |-> "number", s |-> <<>>, neg |-> FALSE, m |-> 0, e |-> 0]
    ELSE IF e > 0 /\ m % 10 = 0 THEN Canon(neg, m \div 10, e - 1)
    ELSE [t |-> "number", s |-> <<>>, neg |-> neg, m |-> m, e |-> e]

Num(k) == IF k < 0 THEN Canon(TRUE, -k, 0) ELSE Canon(FALSE, k, 0)

\* typeof v === 'number'
IsNumberType(v) == v.t \in {"number", "nan"}
\* isNaN(v) for a value of type number
IsNaN(v) == v.t = "nan"
\* Number.isInteger(v)
IsInteger(v) == v.t = "number" /\ v.e = 0

\* ------------------------------------------------------------------ characters
WhiteSpace == {" "}
Digits == <<"0", "1", "2", "3", "4", "5", "6", "7", "8", "9">>
Lowers == <<"a", "b", "c", "d", "e", "f", "g", "h", "i", "j", "k", "l", "m",
            "n", "o", "p", "q", "r", "s", "t", "u", "v", "w", "x", "y", "z">>
Uppers == <<"A", "B", "C", "D", "E", "F", "G", "H", "I", "J", "K", "L", "M",
            "N", "O", "P", "Q", "R", "S", "T", "U", "V", "W", "X", "Y", "Z">>

IsDigit(c) == \E k \in 1..10 : Digits[k] = c
DigitVal(c) == (CHOOSE k \in 1..10 : Digits[k] = c) - 1
DigitChar(d) == Digits[d + 1]

\* String.prototype.toUpperCase, one character
UpperChar(c) ==
    IF \E k \in 1..26 : Lowers[k] = c
    THEN Uppers[CHOOSE k \in 1..26 : Lowers[k] = c]
    ELSE c

\* ------------------------------------------------------------------ string functions
ToUpperCase(s) == [k \in 1..Len(s) |-> UpperChar(s[k])]

RECURSIVE TrimStart(_)
TrimStart(s) ==
    IF s # <<>> /\ Head(s) \in WhiteSpace THEN TrimStart(Tail(s)) ELSE s

RECURSIVE TrimEnd(_)
TrimEnd(s) ==
    IF s # <<>> /\ s[Len(s)] \in WhiteSpace THEN TrimEnd(SubSeq(s, 1, Len(s) - 1)) ELSE s

\* String.prototype.trim
Trim(s) == TrimEnd(TrimStart(s))

\* s.endsWith('.')
EndsWithDot(s) == s # <<>> /\ s[Len(s)] = "."

\* s.slice(0, -1)
SliceDropLast(s) == IF s = <<>> THEN <<>> ELSE SubSeq(s, 1, Len(s) - 1)

\* s.startsWith(prefix)
StartsWith(s, prefix) ==
    Len(prefix) <= Len(s) /\ SubSeq(s, 1, Len(prefix)) = prefix

\* s.includes(needle)
Includes(s, needle) ==
    \E k \in 0..(Len(s) - Len(needle)) : SubSeq(s, k + 1, k + Len(needle)) = needle

\* s.replace(/['\s]/g, '')
RECURSIVE RemoveAposWs(_)
RemoveAposWs(s) ==
    IF s = <<>> THEN <<>>
    ELSE IF Head(s) = "'" \/ Head(s) \in WhiteSpace THEN RemoveAposWs(Tail(s))
    ELSE <<Head(s)>> \o RemoveAposWs(Tail(s))

\* The longest prefix of s without white space, and what follows it.
RECURSIVE TokenLen(_)
TokenLen(s) ==
    IF s = <<>> \/ Head(s) \in WhiteSpace THEN 0 ELSE 1 + TokenLen(Tail(s))

\* s.split(/\s+/) for a trimmed, non-empty s: its white-space separated tokens.
RECURSIVE SplitWs(_)
SplitWs(s) ==
    LET n == TokenLen(s)
        rest == TrimStart(SubSeq(s, n + 1, Len(s)))
    IN  IF rest = <<>> THEN <<SubSeq(s, 1, n)>>
        ELSE <<SubSeq(s, 1, n)>> \o SplitWs(rest)

\* strings.join(' ')
RECURSIVE JoinSpace(_)
JoinSpace(strs) ==
    IF strs = <<>> THEN <<>>
    ELSE IF Len(strs) = 1 THEN Head(strs)
    ELSE Head(strs) \o <<" ">> \o JoinSpace(Tail(strs))

\* ------------------------------------------------------------------ numbers and text
\* The length of the longest prefix of s made of decimal digits.
RECURSIVE DigitRun(_)
DigitRun(s) == IF s = <<>> \/ ~IsDigit(Head(s)) THEN 0 ELSE 1 + DigitRun(Tail(s))

\* The value of a sequence of decimal digits.
RECURSIVE DigitsValue(_)
DigitsValue(ds) ==
    IF ds = <<>> THEN 0 ELSE 10 * DigitsValue(SubSeq(ds, 1, Len(ds) - 1)) + DigitVal(ds[Len(ds)])

\* The decimal digits of a natural number.
RECURSIVE NatDigits(_)
NatDigits(n) ==
    IF n < 10 THEN <<DigitChar(n)>> ELSE NatDigits(n \div 10) \o <<DigitChar(n % 10)>>

\* The digits of n, left-padded with zeros to width w.
RECURSIVE PadDigits(_, _)
PadDigits(n, w) ==
    IF w = 0 THEN <<>> ELSE PadDigits(n \div 10, w - 1) \o <<DigitChar(n % 10)>>

\* Number(text): white space is trimmed, the empty text is 0, then an optional sign
\* and digits[.digits] or .digits. (The text of the model has no exponent, no radix
\* prefix and no "Infinity": see NumChars.)
NumberOfString(s) ==
    LET t == Trim(s)
        signed == t # <<>> /\ Head(t) \in {"-", "+"}
        neg == t # <<>> /\ Head(t) = "-"
        body == IF signed THEN Tail(t) ELSE t
        ni == DigitRun(body)
        afterInt == SubSeq(body, ni + 1, Len(body))
        hasDot == afterInt # <<>> /\ Head(afterInt) = "."
        fracAll == IF hasDot THEN Tail(afterInt) ELSE <<>>
        nf == DigitRun(fracAll)
        wellFormed ==
            /\ ni + nf > 0
            /\ IF hasDot THEN nf = Len(fracAll) ELSE afterInt = <<>>
    IN  IF t = <<>> THEN Num(0)
        ELSE IF ~wellFormed THEN NaN
        ELSE Canon(neg,
                   DigitsValue(SubSeq(body, 1, ni)) * Pow10(nf) + DigitsValue(fracAll),
                   nf)

\* parseInt(text, 10): leading white space, an optional sign, then the longest run
\* of digits; NaN when there is none.
ParseInt(s) ==
    LET t == TrimStart(s)
        signed == t # <<>> /\ Head(t) \in {"-", "+"}
        neg == t # <<>> /\ Head(t) = "-"
        body == IF signed THEN Tail(t) ELSE t
        ni == DigitRun(body)
    IN  IF ni = 0 THEN NaN
        ELSE Canon(neg, DigitsValue(SubSeq(body, 1, ni)), 0)

\* String(number) for the numbers of the model (no exponent form is reached).
NumberToString(v) ==
    IF v.t = "nan" THEN <<"N", "a", "N">>
    ELSE LET ip == v.m \div Pow10(v.e)
             fp == v.m % Pow10(v.e)
         IN  (IF v.neg THEN <<"-">> ELSE <<>>)
             \o NatDigits(ip)
             \o (IF v.e > 0 THEN <<".">> \o PadDigits(fp, v.e) ELSE <<>>)

\* String(v)
JsString(v) ==
    CASE v.t = "string" -> v.s
      [] v.t = "undefined" -> <<"u", "n", "d", "e", "f", "i", "n", "e", "d">>
      [] v.t = "null" -> <<"n", "u", "l", "l">>
      [] OTHER -> NumberToString(v)

\* String(v ?? '')
StringOrEmpty(v) == IF v.t \in {"undefined", "null"} THEN <<>> ELSE JsString(v)

\* Boolean(v), as used by filter(Boolean)
Truthy(v) ==
    CASE v.t = "string" -> v.s # <<>>
      [] v.t = "number" -> v.m # 0
      [] OTHER -> FALSE

\* values.filter(Boolean).join(' ')
RECURSIVE TruthyStrings(_)
TruthyStrings(vals) ==
    IF vals = <<>> THEN <<>>
    ELSE IF Truthy(Head(vals)) THEN <<JsString(Head(vals))>> \o TruthyStrings(Tail(vals))
    ELSE TruthyStrings(Tail(vals))

FilterJoin(vals) == JoinSpace(TruthyStrings(vals))

\* ================================================================== records and cleaning
Fields == {"drawingNumber", "itemNo", "name", "size", "length", "unit", "modelType",
           "description", "material", "standard", "quantity", "remarks"}

\* An object is a function on Fields; a key the object does not have reads as
\* undefined, so it holds Undef.
EmptyObject == [f \in Fields |-> Undef]

\* A parsed JSON value: an array of elements, or an element: an object, null or a
\* number (k), with the object's fields o.
JsonArray(elems) == [k |-> "array", items |-> elems, o |-> EmptyObject]
JsonObject(obj) == [k |-> "object", items |-> <<>>, o |-> obj]
JsonNull == [k |-> "null", items |-> <<>>, o |-> EmptyObject]
JsonNumber == [k |-> "number", items |-> <<>>, o |-> EmptyObject]

\* { ...item }: the own properties of an object; none for null or a number.
SpreadOf(item) == IF item.k = "object" THEN item.o ELSE EmptyObject

\* 1. Clean 'length'
CleanLength(v) ==
    LET trimmed == Trim(StringOrEmpty(v))
        lengthStr == IF EndsWithDot(trimmed) THEN SliceDropLast(trimmed) ELSE trimmed
    IN  IF lengthStr # <<>> /\ ~IsNaN(NumberOfString(lengthStr))
        THEN NumberOfString(lengthStr)
        ELSE Str(lengthStr)

\* 2. Clean 'quantity'
CleanQuantity(v) ==
    LET quantityStr == Trim(StringOrEmpty(v))
    IN  IF quantityStr # <<>> /\ ~IsNaN(NumberOfString(quantityStr))
        THEN NumberOfString(quantityStr)
        ELSE LET num == ParseInt(quantityStr)
             IN  IF IsNaN(num) THEN Num(1) ELSE num

HEX == <<"H", "E", "X">>
HEXDOT == <<"H", "E", "X", ".">>
SCRE == <<"S", "C", "R", "E">>
SCRD == <<"S", "C", "R", "D">>
MACHN == <<"M", "A", "C", "H", "N">>

\* The rewrite for the upper-case spelling only.
RuleHexExact(item) ==
    IF StringOrEmpty(item["modelType"]) = HEX
    THEN [item EXCEPT !["modelType"] = Str(HEXDOT)]
    ELSE item

\* 3. Normalize 'HEX.'
RuleHex(item) ==
    IF ToUpperCase(StringOrEmpty(item["modelType"])) = HEX
    THEN [item EXCEPT !["modelType"] = Str(HEXDOT)]
    ELSE item

\* The move without the test of what the description already holds.
RuleScreAlways(item) ==
    LET modelTypeUpper == ToUpperCase(StringOrEmpty(item["modelType"]))
    IN  IF modelTypeUpper = SCRE \/ modelTypeUpper = SCRD
        THEN [item EXCEPT
                !["description"] = Str(FilterJoin(<<item["modelType"], item["description"]>>)),
                !["modelType"] = Str(<<>>)]
        ELSE item

\* 4. Move 'SCRE' or 'SCRD' from modelType to description
RuleScre(item) ==
    LET modelTypeUpper == ToUpperCase(StringOrEmpty(item["modelType"]))
    IN  IF modelTypeUpper = SCRE \/ modelTypeUpper = SCRD
        THEN [item EXCEPT
                !["description"] =
                    IF ~Includes(ToUpperCase(StringOrEmpty(item["description"])),
                                 modelTypeUpper)
                    THEN Str(FilterJoin(<<item["modelType"], item["description"]>>))
                    ELSE @,
                !["modelType"] = Str(<<>>)]
        ELSE item

\* The split without the exception.
RuleSplitAll(item) ==
    LET modelTypeStr == Trim(StringOrEmpty(item["modelType"]))
    IN  IF modelTypeStr = <<>> THEN item
        ELSE LET tokens == SplitWs(modelTypeStr)
             IN  IF Len(tokens) > 1
                 THEN [item EXCEPT
                         !["modelType"] = Str(tokens[1]),
                         !["description"] =
                             Str(FilterJoin(<<item["description"],
                                              Str(JoinSpace(Tail(tokens)))>>))]
                 ELSE item

\* 5. Split multi-word modelType (except MACH'N)
RuleSplit(item) ==
    LET modelTypeStr == Trim(StringOrEmpty(item["modelType"]))
    IN  IF modelTypeStr = <<>> THEN item
        ELSE LET tokens == SplitWs(modelTypeStr)
                 normalizedModelType == ToUpperCase(RemoveAposWs(modelTypeStr))
             IN  IF Len(tokens) > 1 /\ ~StartsWith(normalizedModelType, MACHN)
                 THEN [item EXCEPT
                         !["modelType"] = Str(tokens[1]),
                         !["description"] =
                             Str(FilterJoin(<<item["description"],
                                              Str(JoinSpace(Tail(tokens)))>>))]
                 ELSE item

\* The map callback of extractBomFromFile: the copy, then rules 1 to 5 in order.
NormalizeItem(item) ==
    LET newItem == SpreadOf(item)
        cleaned == [newItem EXCEPT !["length"] = CleanLength(newItem["length"]),
                                   !["quantity"] = CleanQuantity(newItem["quantity"])]
    IN  RuleSplit(RuleScre(RuleHex(cleaned)))

\* "Final type safety check for quantity" of extractBomFromFile.
FinalQuantityCheck(obj) ==
    IF IsNumberType(obj["quantity"]) THEN obj
    ELSE LET num == ParseInt(JsString(obj["quantity"]))
         IN  [obj EXCEPT !["quantity"] = IF IsNaN(num) THEN Num(1) ELSE num]

\* The cleaning of the elements that are objects only.
NormalizeInteractiveCompact(items) ==
    LET objs == SelectSeq(items, LAMBDA it : it.k = "object")
    IN  [k \in 1..Len(objs) |-> FinalQuantityCheck(NormalizeItem(objs[k]))]

\* extractBomFromFile from the parsed response on: what the web app returns.
NormalizeInteractive(items) ==
    [k \in 1..Len(items) |-> FinalQuantityCheck(NormalizeItem(items[k]))]

\* quantity of the batch script: Number(text) if numeric, else parseInt(text) || 1.
CleanQuantityBatch(v) ==
    LET quantityStr == Trim(StringOrEmpty(v))
        num == ParseInt(quantityStr)
        q == IF quantityStr # <<>> /\ ~IsNaN(NumberOfString(quantityStr))
             THEN NumberOfString(quantityStr)
             ELSE IF Truthy(num) THEN num ELSE Num(1)
    IN  IF IsNaN(q) THEN Num(1) ELSE q

\* The map callback of extractBomFromPdf ("Data cleaning logic").
CleanItemBatch(item) ==
    LET newItem == SpreadOf(item)
    IN  [newItem EXCEPT !["length"] = CleanLength(newItem["length"]),
                        !["quantity"] = CleanQuantityBatch(newItem["quantity"])]

NormalizeBatch(items) == [k \in 1..Len(items) |-> CleanItemBatch(items[k])]

\* ------------------------------------------------------------------ the inputs of the pipeline
\* The characters of length and quantity text: digits, the decimal point, the sign,
\* white space and a letter.
NumChars == {"0", "3", "5", ".", "-", " ", "a"}
NumTexts == UNION { [1..n -> NumChars] : n \in 0..MaxNumLen }

\* modelType text: up to MaxChunks of these pieces, concatenated.
ModelChunks == { <<"H", "E", "X">>, <<"h", "e", "x">>, <<"S", "C", "R", "E">>,
                 <<"s", "c", "r", "d">>, <<"M", "A", "C", "H", "'", "N">>,
                 <<" ", "A">>, <<" ">>, <<".">> }
ModelTexts == { Flatten(cs) : cs \in UNION { [1..n -> ModelChunks] : n \in 0..MaxChunks } }

DescValues == { Undef, Null, Str(<<>>), Str(<<"B">>), Str(<<"s", "c", "r", "e">>),
                Str(<<"a", " ", "S", "C", "R", "D">>) }

\* A record as the schema asks for it: twelve strings.
BaseRecord ==
    [f \in Fields |->
        CASE f = "length" -> Str(<<"1", "2", ".">>)
          [] f = "quantity" -> Str(<<"2">>)
          [] f = "modelType" -> Str(<<"A">>)
          [] f = "description" -> Str(<<>>)
          [] OTHER -> Str(<<"x">>)]

NumberValues == { Num(0), Num(12), Canon(FALSE, 35, 1), Canon(TRUE, 5, 0) }

LengthVariants ==
    { [BaseRecord EXCEPT !["length"] = v] :
        v \in { Str(t) : t \in NumTexts } \cup NumberValues }
QuantityVariants ==
    { [BaseRecord EXCEPT !["quantity"] = v] :
        v \in { Str(t) : t \in NumTexts } \cup NumberValues }
ModelVariants ==
    { [BaseRecord EXCEPT !["modelType"] = mt, !["description"] = d] :
        mt \in { Str(t) : t \in ModelTexts } \cup {Undef, Null}, d \in DescValues }
PresenceVariants ==
    { [BaseRecord EXCEPT ![f] = v] : f \in Fields, v \in {Undef, Null} }
    \cup { EmptyObject }

RawRecords == LengthVariants \cup QuantityVariants \cup ModelVariants \cup PresenceVariants

SampleRecords ==
    { BaseRecord, EmptyObject,
      [BaseRecord EXCEPT !["modelType"] = Str(<<"h", "e", "x">>)],
      [BaseRecord EXCEPT !["quantity"] = Str(<<"3", ".", "5">>)] }

\* What generateContent answers: the call rejects, the text is no JSON, or the text
\* parses to a JSON value.
CallError == [kind |-> "error", value |-> JsonNull]
NotJson == [kind |-> "notjson", value |-> JsonNull]
Json(v) == [kind |-> "json", value |-> v]

SampleReplies ==
    { CallError, NotJson, Json(JsonNull), Json(JsonNumber), Json(JsonArray(<<>>)) }
    \cup { Json(JsonObject(r)) : r \in SampleRecords }
    \cup { Json(JsonArray(<<JsonObject(r)>>)) : r \in SampleRecords }
    \cup { Json(JsonArray(<<JsonObject(r), JsonNull, JsonObject(BaseRecord)>>)) :
             r \in SampleRecords }

Replies ==
    SampleReplies \cup { Json(JsonArray(<<JsonObject(r)>>)) : r \in RawRecords }

\* The document: the media type the browser reports, whether pdf-lib can load it,
\* and its page count.
PdfFile(n) == [type |-> "application/pdf", readable |-> TRUE, pages |-> n]
CorruptPdf == [type |-> "application/pdf", readable |-> FALSE, pages |-> 0]
ImageFile == [type |-> "image/png", readable |-> TRUE, pages |-> 0]
JpegFile == [type |-> "image/jpeg", readable |-> TRUE, pages |-> 0]
TextFile == [type |-> "text/plain", readable |-> TRUE, pages |-> 0]

\* if (pageCount > 20) of the file selection
PAGE_LIMIT == 20

\* PDFs of few pages, of exactly the limit and of one page more, and a corrupt one.
PdfFiles ==
    { PdfFile(n) : n \in 0..MaxPages } \cup { PdfFile(PAGE_LIMIT), PdfFile(PAGE_LIMIT + 1) }
    \cup { CorruptPdf }
\* The web app takes any file; the batch script takes the .pdf entries of a folder.
FilesOf(p) ==
    IF p = "interactive" THEN PdfFiles \cup { ImageFile, JpegFile, TextFile } ELSE PdfFiles

Paths == {"interactive", "batch"}

\* extractBomFromFile checks the credential itself; the batch script reaches
\* extractBomFromPdf only after main() found it.
KeysOf(p) == IF p = "interactive" THEN BOOLEAN ELSE {TRUE}

\* The web app validates a selection before extractBomFromFile can be started on it;
\* extractBomFromFile itself, and the batch script, take the document as it is.
EntriesOf(p) == IF p = "interactive" THEN {"select", "call"} ELSE {"call"}

\* Every reply for a one-page PDF with the credential set, and every document and
\* environment for the sample replies.
Scenarios ==
    { [path |-> p, entry |-> "call", file |-> PdfFile(1), apiKey |-> TRUE, reply |-> r] :
        p \in Paths, r \in Replies }
    \cup UNION { { [path |-> p, entry |-> e, file |-> f, apiKey |-> key, reply |-> r] :
                     e \in EntriesOf(p), f \in FilesOf(p), key \in KeysOf(p),
                     r \in SampleReplies } :
                 p \in Paths }

\* ================================================================== extraction pipeline
PromptPart == [kind |-> "text", mimeType |-> "", page |-> 0]

\* The whole PDF as one unit.
PdfPartsWhole(n) ==
    [k \in 1..1 |-> [kind |-> "inlineData", mimeType |-> "application/pdf", page |-> 0]]

\* The page-units of a PDF: page k copied into a document of its own.
PdfParts(n) ==
    [k \in 1..n |-> [kind |-> "inlineData", mimeType |-> "application/pdf", page |-> k]]

Threw(err) == [ok |-> FALSE, error |-> err, parts |-> <<>>, items |-> <<>>]
Parts(ps) == [ok |-> TRUE, error |-> "none", parts |-> ps, items |-> <<>>]
Items(objs) == [ok |-> TRUE, error |-> "none", parts |-> <<>>, items |-> objs]

\* mimeType.startsWith('image/')
IsImageType(t) == t \in {"image/png", "image/jpeg"}

\* The validation callback of handleFilesSelect for one file.
ValidateFile(f) ==
    IF f.type = "application/pdf" THEN
        IF ~f.readable THEN Rejected("unreadable", 0)
        ELSE IF f.pages > PAGE_LIMIT THEN Rejected("pagelimit", f.pages)
        ELSE Accepted
    ELSE IF IsImageType(f.type) THEN Accepted
    ELSE Rejected("unsupported", 0)

\* fileToGenerativeParts of the web app
FileToGenerativeParts(f) ==
    IF IsImageType(f.type) THEN
        Parts(<<[kind |-> "inlineData", mimeType |-> f.type, page |-> 0]>>)
    ELSE IF f.type = "application/pdf" THEN
        IF f.readable THEN Parts(PdfParts(f.pages)) ELSE Threw("unreadable")
    ELSE Threw("unsupported")

\* pdfToGenerativeParts of the batch script
PdfToGenerativeParts(f) ==
    IF f.type = "application/pdf" /\ f.readable THEN Parts(PdfParts(f.pages))
    ELSE Threw("unreadable")

\* One request for each page-unit, each with the instruction text.
BuildRequestsPerPage(ps) == [k \in 1..Len(ps) |-> <<PromptPart, ps[k]>>]

\* The generateContent calls of one document: contents.parts of each request.
BuildRequests(ps) == << <<PromptPart>> \o ps >>

\* extractBomFromFile from the response on: JSON.parse, the wrapping of a value that
\* is no array, the cleaning and the final quantity check.
ExtractInteractive(r) ==
    IF r.kind # "json" THEN Threw("inference")
    ELSE LET allBomItems == IF r.value.k = "array" THEN r.value.items ELSE <<r.value>>
         IN  Items(NormalizeInteractive(allBomItems))

\* extractBomFromPdf from the response on: JSON.parse, then allBomItems.map, which
\* only an array has.
ExtractBatch(r) ==
    IF r.kind # "json" THEN Threw("inference")
    ELSE IF r.value.k # "array" THEN Threw("cleaning")
    ELSE Items(NormalizeBatch(r.value.items))

PipeInit ==
    /\ BatchInit
    /\ \E sc \in Scenarios :
         /\ path = sc.path /\ entryPoint = sc.entry /\ file = sc.file /\ apiKey = sc.apiKey
         /\ reply = sc.reply
    /\ stage = (IF entryPoint = "select" THEN "selected" ELSE "start")
    /\ rejection = Accepted
    /\ parts = <<>> /\ requests = <<>> /\ pipeError = "none" /\ result = <<>>
    /\ AppState

\* handleFilesSelect for the document: a rejected file gets an error entry and is not
\* among selectedFiles, so handleAnalyzeClick never hands it to extractBomFromFile.
PipeValidate ==
    /\ stage = "selected"
    /\ rejection' = ValidateFile(file)
    /\ stage' = (IF ValidateFile(file).ok THEN "start" ELSE "rejected")
    /\ UNCHANGED <<path, entryPoint, file, apiKey, reply, parts, requests, pipeError, result>>
    /\ UNCHANGED <<batchVars, appVars>>

\* The credential check of extractBomFromFile and the segmentation of either path.
PipeSegment ==
    /\ stage = "start"
    /\ LET seg == IF path = "interactive"
                  THEN IF ~apiKey THEN Threw("nokey") ELSE FileToGenerativeParts(file)
                  ELSE PdfToGenerativeParts(file)
       IN  IF seg.ok
           THEN stage' = "segmented" /\ parts' = seg.parts /\ UNCHANGED pipeError
           ELSE stage' = "failed" /\ pipeError' = seg.error /\ UNCHANGED parts
    /\ UNCHANGED <<path, entryPoint, rejection, file, apiKey, reply, requests, result>>
    /\ UNCHANGED <<batchVars, appVars>>

\* The continuation of the segmentation: the prompt, the schema and the call.
PipeSend ==
    /\ stage = "segmented"
    /\ requests' = requests \o BuildRequests(parts)
    /\ stage' = "awaiting"
    /\ UNCHANGED <<path, entryPoint, rejection, file, apiKey, reply, parts, pipeError, result>>
    /\ UNCHANGED <<batchVars, appVars>>

\* The call settles: the rest of the function up to its return or throw.
PipeReceive ==
    /\ stage = "awaiting"
    /\ LET out == IF path = "interactive" THEN ExtractInteractive(reply)
                  ELSE ExtractBatch(reply)
       IN  IF out.ok
           THEN stage' = "done" /\ result' = out.items /\ UNCHANGED pipeError
           ELSE stage' = "failed" /\ pipeError' = out.error /\ UNCHANGED result
    /\ UNCHANGED <<path, entryPoint, rejection, file, apiKey, reply, parts, requests>>
    /\ UNCHANGED <<batchVars, appVars>>

PipeNext == PipeValidate \/ PipeSegment \/ PipeSend \/ PipeReceive

PipeSpec == PipeInit /\ [][PipeNext]_vars

\* ================================================================== the web app
\* File names are sequences of characters.
DotXlsx == <<".", "x", "l", "s", "x">>
GenericName == <<"b", "o", "m", "-", "e", "x", "p", "o", "r", "t">> \o DotXlsx
ZipName == <<"b", "o", "m", "-", "e", "x", "p", "o", "r", "t", "s", ".", "z", "i", "p">>

\* The files of the folder a user picks from, in the order the file dialog lists
\* them: two valid files of one base name, a valid file with a dot in its base
\* name, and a PDF over the page limit.
NamedFile(name, f) ==
    [name |-> name, type |-> f.type, readable |-> f.readable, pages |-> f.pages]
AppFiles ==
    << NamedFile(<<"a", ".", "p", "d", "f">>, PdfFile(1)),
       NamedFile(<<"a", ".", "p", "n", "g">>, ImageFile),
       NamedFile(<<"b", ".", "c", ".", "j", "p", "g">>, JpegFile),
       NamedFile(<<"d", ".", "p", "d", "f">>, PdfFile(PAGE_LIMIT + 1)) >>

\* The files of AppFiles at the positions picked, in the order of AppFiles.
Picked(picks) == SelectSeq(AppFiles, LAMBDA f : \E k \in picks : AppFiles[k] = f)

\* The FileList of a selection or a drop: one to MaxSelect files.
FileLists ==
    { Picked(picks) : picks \in { ps \in SUBSET (1..Len(AppFiles)) :
                                    Cardinality(ps) >= 1 /\ Cardinality(ps) <= MaxSelect } }

\* The calls awaiting a Promise.all or zip.generateAsync.
Pending == Len(validations) + Len(analyses) + Len(exports)

\* name.replace(/\.[^/.]+$/, ''): the last dot and what follows it are dropped, when
\* something follows it and no slash does.
BaseName(name) ==
    LET dots == { k \in 1..Len(name) : name[k] = "." }
    IN  IF dots = {} THEN name
        ELSE LET last == CHOOSE k \in dots : \A j \in dots : j <= k
             IN  IF last < Len(name) /\ \A j \in (last + 1)..Len(name) : name[j] # "/"
                 THEN SubSeq(name, 1, last - 1)
                 ELSE name

\* The records extractBomFromFile returned for a document: n BomItems, told apart by
\* the document and their place in its list.
BomItems(name, n) == [k \in 1..n |-> [doc |-> name, row |-> k]]

\* How the extraction of one document settles: it rejects, or resolves with 0 to
\* MaxItems records.
Rejects == MaxItems + 1
Outcomes == 0..(MaxItems + 1)

\* validFiles and errors of handleFilesSelect, in the order of the FileList.
ValidFiles(fl) == SelectSeq(fl, LAMBDA f : ValidateFile(f).ok)
ErrorsOf(fl) ==
    LET bad == SelectSeq(fl, LAMBDA f : ~ValidateFile(f).ok)
    IN  [k \in 1..Len(bad) |->
            [name |-> bad[k].name, kind |-> ValidateFile(bad[k]).kind,
             pages |-> ValidateFile(bad[k]).pages]]

\* analyzedData.filter(d => d.bomItems.length > 0)
FilesWithBoms(data) == SelectSeq(data, LAMBDA d : Len(d.bomItems) > 0)

\* isCombineDisabled
IsCombineDisabled(data, files) ==
    IF Len(data) > 0 THEN Len(FilesWithBoms(data)) <= 1 ELSE Len(files) <= 1

\* The effect on isCombineDisabled, run with the render a user event caused (React
\* runs it before that event returns): a disabled toggle is forced on.
AfterEffect(combine, data, files) ==
    IF IsCombineDisabled(data, files) THEN TRUE ELSE combine

\* The flag once a pending effect has run: React runs it before it renders again.
FlushEffect == IF effectPending THEN TRUE ELSE combineExport

\* The render that follows the continuation of an await commits with the toggle
\* disabled and the flag off: its effect is scheduled, to run in a callback of its own.
EffectDue(combine, data, files) == IsCombineDisabled(data, files) /\ ~combine

Remove(seq, k) == [j \in 1..(Len(seq) - 1) |-> IF j < k THEN seq[j] ELSE seq[j + 1]]

\* The validation callback awaits (file.arrayBuffer, PDFDocument.load) for a PDF only.
HasPdf(files) == \E k \in 1..Len(files) : files[k].type = "application/pdf"

\* handleFilesSelect up to `await Promise.all(validationPromises)`. With no PDF among
\* the files every validation promise is resolved already, and the continuation runs
\* before any other handler can.
HandleFilesSelect ==
    /\ \E files \in FileLists :
         /\ latestFiles' = files
         /\ IF HasPdf(files) THEN
               /\ Pending < MaxPending
               /\ validations' = Append(validations, files)
               /\ selectedFiles' = <<>> /\ fileError' = <<>>
               /\ combineExport' = AfterEffect(FlushEffect, <<>>, <<>>)
            ELSE
               /\ UNCHANGED validations
               /\ selectedFiles' = ValidFiles(files) /\ fileError' = ErrorsOf(files)
               /\ combineExport' = AfterEffect(AfterEffect(FlushEffect, <<>>, <<>>),
                                               <<>>, ValidFiles(files))
    /\ effectPending' = FALSE
    /\ analyzedData' = <<>> /\ error' = "none"
    /\ download' = NoDownload
    /\ UNCHANGED <<isLoading, progressMessage, analyses, exports>>
    /\ UNCHANGED <<batchVars, pipeVars>>

\* The continuation of a handleFilesSelect call: the valid files are selected, and
\* the errors, when there are any, become fileError.
ValidationDone ==
    /\ \E k \in 1..Len(validations) :
         LET files == validations[k] IN
         /\ validations' = Remove(validations, k)
         /\ selectedFiles' = ValidFiles(files)
         /\ fileError' = IF Len(ErrorsOf(files)) > 0 THEN ErrorsOf(files) ELSE fileError
         /\ combineExport' = FlushEffect
         /\ effectPending' = EffectDue(FlushEffect, analyzedData, ValidFiles(files))
    /\ download' = NoDownload
    /\ UNCHANGED <<analyzedData, isLoading, error, progressMessage, latestFiles, analyses,
                   exports>>
    /\ UNCHANGED <<batchVars, pipeVars>>

\* disabled={selectedFiles.length === 0 || isLoading || !!fileError} of the button
\* that calls handleAnalyzeClick.
AnalyzeEnabled == Len(selectedFiles) > 0 /\ ~isLoading /\ fileError = <<>>

\* handleAnalyzeClick up to `await Promise.all(analysisPromises)`.
HandleAnalyzeClick ==
    /\ AnalyzeEnabled
    /\ Pending < MaxPending
    /\ isLoading' = TRUE /\ error' = "none" /\ fileError' = <<>>
    /\ analyzedData' = <<>>
    /\ progressMessage' = Len(selectedFiles)
    /\ analyses' = Append(analyses, selectedFiles)
    /\ combineExport' = AfterEffect(FlushEffect, <<>>, selectedFiles)
    /\ effectPending' = FALSE
    /\ download' = NoDownload
    /\ UNCHANGED <<selectedFiles, latestFiles, validations, exports>>
    /\ UNCHANGED <<batchVars, pipeVars>>

\* The continuation publishing the results of the extractions that resolved.
AnalysisDonePartial ==
    /\ \E k \in 1..Len(analyses) :
         LET files == analyses[k] IN
         /\ analyses' = Remove(analyses, k)
         /\ \E results \in [1..Len(files) -> Outcomes] :
              LET newData == [j \in 1..Len(files) |->
                                 [fileName |-> files[j].name,
                                  bomItems |-> BomItems(files[j].name,
                                                        IF results[j] = Rejects THEN 0
                                                        ELSE results[j])]]
              IN  /\ analyzedData' = newData
                  /\ error' = (IF \E j \in 1..Len(files) : results[j] = Rejects
                               THEN "failed"
                               ELSE IF \A j \in 1..Len(files) : results[j] = 0
                               THEN "nobom" ELSE error)
                  /\ combineExport' = FlushEffect
                  /\ effectPending' = EffectDue(FlushEffect, newData, selectedFiles)
    /\ isLoading' = FALSE /\ progressMessage' = 0
    /\ download' = NoDownload
    /\ UNCHANGED <<selectedFiles, fileError, latestFiles, validations, exports>>
    /\ UNCHANGED <<batchVars, pipeVars>>

\* The continuation of a handleAnalyzeClick call: every extraction resolved and the
\* results become analyzedData, or one rejected (catch); then finally.
AnalysisDone ==
    /\ \E k \in 1..Len(analyses) :
         LET files == analyses[k] IN
         /\ analyses' = Remove(analyses, k)
         /\ \E results \in [1..Len(files) -> Outcomes] :
              IF \E j \in 1..Len(files) : results[j] = Rejects THEN
                 /\ error' = "failed"
                 /\ UNCHANGED analyzedData
                 /\ combineExport' = FlushEffect
                 /\ effectPending' = EffectDue(FlushEffect, analyzedData, selectedFiles)
              ELSE
                 LET newData == [j \in 1..Len(files) |->
                                    [fileName |-> files[j].name,
                                     bomItems |-> BomItems(files[j].name, results[j])]]
                 IN  /\ analyzedData' = newData
                     /\ error' = (IF \A j \in 1..Len(files) : results[j] = 0
                                  THEN "nobom" ELSE error)
                     /\ combineExport' = FlushEffect
                     /\ effectPending' = EffectDue(FlushEffect, newData, selectedFiles)
    /\ isLoading' = FALSE /\ progressMessage' = 0
    /\ download' = NoDownload
    /\ UNCHANGED <<selectedFiles, fileError, latestFiles, validations, exports>>
    /\ UNCHANGED <<batchVars, pipeVars>>

\* handleRestart
HandleRestart ==
    /\ selectedFiles' = <<>> /\ analyzedData' = <<>> /\ error' = "none"
    /\ fileError' = <<>> /\ isLoading' = FALSE /\ progressMessage' = 0
    /\ combineExport' = AfterEffect(FlushEffect, <<>>, <<>>)
    /\ effectPending' = FALSE
    /\ latestFiles' = <<>>
    /\ download' = NoDownload
    /\ UNCHANGED <<validations, analyses, exports>>
    /\ UNCHANGED <<batchVars, pipeVars>>

\* onClick of the combine toggle, which is disabled while isCombineDisabled.
ToggleCombine ==
    /\ ~IsCombineDisabled(analyzedData, selectedFiles)
    /\ combineExport' = ~combineExport
    /\ download' = NoDownload
    /\ UNCHANGED <<selectedFiles, analyzedData, isLoading, error, fileError,
                   progressMessage, effectPending, latestFiles, validations, analyses,
                   exports>>
    /\ UNCHANGED <<batchVars, pipeVars>>

\* The effect of the render that followed a continuation runs: the flag is forced on.
CombineEffect ==
    /\ effectPending
    /\ combineExport' = TRUE /\ effectPending' = FALSE
    /\ download' = NoDownload
    /\ UNCHANGED <<selectedFiles, analyzedData, isLoading, error, fileError,
                   progressMessage, latestFiles, validations, analyses, exports>>
    /\ UNCHANGED <<batchVars, pipeVars>>

\* The name of the single table of a combined export.
CombinedNameGeneric(filesWithBoms) == GenericName

CombinedName(filesWithBoms) ==
    IF Len(filesWithBoms) = 1 THEN BaseName(filesWithBoms[1].fileName) \o DotXlsx
    ELSE GenericName

\* zip.file(name, data): a new entry, or the entry of that name replaced.
ZipFile(entries, name, data) ==
    IF \E k \in 1..Len(entries) : entries[k].name = name
    THEN [k \in 1..Len(entries) |->
            IF entries[k].name = name THEN [name |-> name, rows |-> data] ELSE entries[k]]
    ELSE Append(entries, [name |-> name, rows |-> data])

\* filesWithBoms.forEach of the separate export
RECURSIVE ZipAll(_, _)
ZipAll(entries, filesWithBoms) ==
    IF filesWithBoms = <<>> THEN entries
    ELSE ZipAll(ZipFile(entries, BaseName(Head(filesWithBoms).fileName) \o DotXlsx,
                        Head(filesWithBoms).bomItems),
                Tail(filesWithBoms))

\* handleExport, behind a button that is disabled while there is no BomItem, with
\* analyzedData and combineExport as the render committed last has them. The single
\* table is written at once; the archive is filled and the call awaits
\* zip.generateAsync.
HandleExport ==
    /\ Len(FilesWithBoms(analyzedData)) > 0
    /\ LET filesWithBoms == FilesWithBoms(analyzedData) IN
       IF combineExport THEN
          /\ download' =
               [kind |-> "xlsx", name |-> CombinedName(filesWithBoms),
                rows |-> Flatten([k \in 1..Len(filesWithBoms) |-> filesWithBoms[k].bomItems]),
                entries |-> <<>>]
          /\ UNCHANGED exports
       ELSE
          /\ Pending < MaxPending
          /\ exports' = Append(exports, ZipAll(<<>>, filesWithBoms))
          /\ download' = NoDownload
    /\ UNCHANGED <<selectedFiles, analyzedData, isLoading, error, fileError,
                   progressMessage, combineExport, effectPending, latestFiles,
                   validations, analyses>>
    /\ UNCHANGED <<batchVars, pipeVars>>

\* The continuation of a handleExport call: the generated archive is handed to the
\* browser under the name bom-exports.zip.
ExportDone ==
    /\ \E k \in 1..Len(exports) :
         /\ exports' = Remove(exports, k)
         /\ download' = [kind |-> "zip", name |-> ZipName, rows |-> <<>>,
                         entries |-> exports[k]]
    /\ UNCHANGED <<selectedFiles, analyzedData, isLoading, error, fileError,
                   progressMessage, combineExport, effectPending, latestFiles,
                   validations, analyses>>
    /\ UNCHANGED <<batchVars, pipeVars>>

AppInit == BatchInit /\ PipeIdle /\ AppState

AppNext ==
    \/ HandleFilesSelect
    \/ ValidationDone
    \/ HandleAnalyzeClick
    \/ AnalysisDone
    \/ HandleRestart
    \/ ToggleCombine
    \/ CombineEffect
    \/ HandleExport
    \/ ExportDone

AppSpec == AppInit /\ [][AppNext]_vars

\* ------------------------------------------------------------------ claims, batch driver
GroupOf(p) == (p - 1) \div BATCH_SIZE
Positions == DOMAIN status
FailedDocs == { p \in Positions : status[p] = "failed" }

RECURSIVE SumCounts(_)
SumCounts(lines) ==
    IF lines = <<>> THEN 0 ELSE Head(lines).count + SumCounts(Tail(lines))

\* C1 (state part): a failed document never aborts the run: whenever some document
\* has failed, main is still in its group loop or has finished normally; at the end
\* every document has settled and the failure count is the number of failed documents.
IsolationInv ==
    /\ (FailedDocs # {}) => pc \in {"await_group", "done"}
    /\ pc = "done" =>
         /\ \A p \in Positions : status[p] \in Settled
         /\ errorCount = Cardinality(FailedDocs)

\* C1 (step part): the step in which a document fails records the failure against
\* that document only: one error line under its own prefix, one more failure
\* counted, and every other document's state and log, and main's position, untouched.
IsolationStep ==
    \A p \in Positions :
        (status[p] # "failed" /\ status'[p] = "failed") =>
            /\ pc' = pc
            /\ errorCount' = errorCount + 1 /\ successCount' = successCount
            /\ docLog'[p][Len(docLog'[p])] = "error"
            /\ \A q \in Positions \ {p} :
                   status'[q] = status[q] /\ docLog'[q] = docLog[q]

\* C1: batch failure isolation: a document's failure at any stage is recorded
\* against that document only; its siblings and every later group still run to
\* their own outcomes and the batch is never aborted by it.
C1_FailureIsolation == [](IsolationInv) /\ [][IsolationStep]_vars

\* C1 witness: a finished run of two groups in which a document of the first group
\* failed while a sibling and a document of the second group were exported.
C1_Witness ==
    /\ pc = "done"
    /\ \E p, q \in Positions :
         /\ p # q /\ GroupOf(p) = 0 /\ GroupOf(q) = 0
         /\ status[p] = "failed" /\ status[q] = "exported"
    /\ \E r \in Positions : GroupOf(r) = 1 /\ status[r] = "exported"

\* C2: batch accounting: at the end of a run the counts the final report states add
\* up to the number of documents. (The report states two counts, successful exports
\* and failed files; a zero-result document is counted in neither.)
C2_AccountingInReport ==
    pc = "done" => SumCounts(report) = Len(pdfFiles)

\* C3: group barrier and bounded concurrency: all in-flight tasks belong to one
\* group, at most BATCH_SIZE inference requests are outstanding, and a task of a
\* later group has been launched only if every task of each earlier group has settled.
C3_GroupBarrier ==
    /\ \A p, q \in Positions :
         (status[p] \in InFlight /\ status[q] \in InFlight) => GroupOf(p) = GroupOf(q)
    /\ Cardinality({ p \in Positions : status[p] = "inferring" }) <= BATCH_SIZE
    /\ \A p, q \in Positions :
         (GroupOf(p) < GroupOf(q) /\ status[q] # "pending") => status[p] \in Settled

\* C3 witness: the second group is in flight after a first group of BATCH_SIZE
\* documents settled, one of them by failing.
C3_Witness ==
    /\ \E q \in Positions : GroupOf(q) = 1 /\ status[q] = "inferring"
    /\ \E p \in Positions : GroupOf(p) = 0 /\ status[p] = "failed"
    /\ Cardinality({ p \in Positions : GroupOf(p) = 0 }) = BATCH_SIZE

\* C4: partitioning: the groups formed are consecutive slices of the document list,
\* each of at most BATCH_SIZE documents and all but the last of exactly BATCH_SIZE;
\* their concatenation is a prefix of the list while the run lasts and the whole
\* list, in ceil(N / BATCH_SIZE) groups, when it is done.
C4_Partitioning ==
    LET n == Len(pdfFiles)
        flat == Flatten(batches)
    IN  /\ \A k \in 1..Len(batches) :
             /\ Len(batches[k]) >= 1 /\ Len(batches[k]) <= BATCH_SIZE
             /\ k < Ceil(n, BATCH_SIZE) => Len(batches[k]) = BATCH_SIZE
        /\ Len(batches) <= Ceil(n, BATCH_SIZE)
        /\ Len(flat) <= n
        /\ flat = SubSeq(pdfFiles, 1, Len(flat))
        /\ \A a, b \in 1..Len(flat) : a # b => flat[a] # flat[b]
        /\ pc = "done" => (Len(batches) = Ceil(n, BATCH_SIZE) /\ flat = pdfFiles)

\* C4 witness: a finished run whose list is no multiple of BATCH_SIZE: two groups,
\* the last one short.
C4_Witness ==
    /\ pc = "done"
    /\ Len(batches) = 2
    /\ Len(batches[1]) = BATCH_SIZE
    /\ Len(batches[2]) < BATCH_SIZE

\* ------------------------------------------------------------------ claims, extraction pipeline
\* The candidate records the reply holds: the array's elements, or the single value.
RawItems == IF reply.value.k = "array" THEN reply.value.items ELSE <<reply.value>>

CleanedFields == {"length", "quantity", "modelType", "description"}
SameCleaned(a, b) == \A f \in CleanedFields : a[f] = b[f]

\* C5: one inference call per document: a document never has more than one request;
\* once its segmentation has passed it has exactly one, and that request carries the
\* instruction text followed by one payload per page, in page order (for an image,
\* by the image itself); a document that failed before the call has none.
C5_OneCallPerDocument ==
    /\ Len(requests) <= 1
    /\ stage \in {"awaiting", "done"} => Len(requests) = 1
    /\ stage = "failed" =>
         Len(requests) = (IF pipeError \in {"nokey", "unreadable", "unsupported"}
                          THEN 0 ELSE 1)
    /\ \A r \in 1..Len(requests) :
         LET req == requests[r]
             n == IF file.type = "application/pdf" THEN file.pages ELSE 1
         IN  /\ Len(req) = n + 1
             /\ req[1].kind = "text"
             /\ \A k \in 1..n :
                  /\ req[k + 1].kind = "inlineData"
                  /\ req[k + 1].mimeType = file.type
                  /\ req[k + 1].page = (IF file.type = "application/pdf" THEN k ELSE 0)

\* C5 witness: a two-page PDF ran through the pipeline with its one request.
C5_Witness ==
    /\ stage = "done" /\ file.type = "application/pdf" /\ file.pages = 2
    /\ Len(requests) = 1 /\ Len(requests[1]) = 3

\* C6: quantity totality: every returned quantity is a finite integer; it is the
\* leading integer of the raw text when one can be parsed, and it is 1 only when
\* none can be parsed (or the leading integer is 1 itself).
C6_QuantityTotality ==
    stage = "done" =>
        \A k \in 1..Len(result) :
            LET raw == SpreadOf(RawItems[k])["quantity"]
                leading == ParseInt(Trim(StringOrEmpty(raw)))
                q == result[k]["quantity"]
            IN  /\ IsInteger(q)
                /\ ~IsNaN(leading) => q = leading
                /\ q = Num(1) => (IsNaN(leading) \/ leading = Num(1))

\* C7: idempotence of normalization: the five rules applied to an item the web app
\* returned change none of length, quantity, modelType and description.
C7_NormalizeIdempotent ==
    (stage = "done" /\ path = "interactive") =>
        \A k \in 1..Len(result) :
            SameCleaned(FinalQuantityCheck(NormalizeItem(JsonObject(result[k]))),
                        result[k])

\* C8: field presence: every returned item has all twelve fields, none of them
\* absent or null.
C8_FieldPresence ==
    stage = "done" =>
        \A k \in 1..Len(result) :
            \A f \in Fields : result[k][f].t \notin {"undefined", "null"}

\* C9: single-object recovery: a response that parses to a value that is no array
\* is wrapped into a one-element list and the document is returned, not failed, on
\* the interactive and on the batch path.
C9_SingleObjectRecovery ==
    (/\ reply.kind = "json" /\ reply.value.k # "array"
     /\ requests # <<>> /\ stage \in {"done", "failed"})
        => (stage = "done" /\ Len(result) = 1)

\* C10: batch and interactive normalization agree: what the batch path returns for
\* a record has the length, quantity, modelType and description the interactive
\* path's cleaning gives the same record.
C10_BatchAgreesWithInteractive ==
    (stage = "done" /\ path = "batch") =>
        \A k \in 1..Len(result) :
            SameCleaned(result[k], FinalQuantityCheck(NormalizeItem(RawItems[k])))

\* C11: page-limit validation: a PDF of more than PAGE_LIMIT pages, or one that cannot
\* be read, never has an inference request, on the web app's path (where the selection
\* rejects it with an error naming the page count, or as unreadable, before any
\* segmentation) and on the batch path; a PDF of exactly PAGE_LIMIT pages is accepted.
C11_PageLimitValidation ==
    LET isPdf == file.type = "application/pdf"
        overLimit == isPdf /\ file.readable /\ file.pages > PAGE_LIMIT
        unreadable == isPdf /\ ~file.readable
    IN  /\ (entryPoint = "select" /\ stage # "selected") =>
              /\ overLimit => (/\ stage = "rejected" /\ parts = <<>>
                               /\ rejection = Rejected("pagelimit", file.pages))
              /\ unreadable => (/\ stage = "rejected" /\ parts = <<>>
                                /\ rejection = Rejected("unreadable", 0))
              /\ (isPdf /\ file.readable /\ file.pages = PAGE_LIMIT) =>
                    (stage # "rejected" /\ rejection = Accepted)
        /\ ((entryPoint = "select" \/ path = "batch") /\ (overLimit \/ unreadable)) =>
              requests = <<>>

\* ------------------------------------------------------------------ claims, the run as a whole
\* The process has ended: process.exit, the return of main, or main().catch.
Ended == pc \in {"exit", "returned", "caught", "done"}

ErrorLines == {"nokey", "noaccess", "unexpected"}
ErrorReports == SelectSeq(runLog, LAMBDA kind : kind \in ErrorLines)

\* C13: environment errors are fatal and early: in a run that finds the credential
\* absent or the input location inaccessible no document is ever read and no
\* inference call made, and the run ends with the error reported once and a non-zero
\* exit status.
C13_EnvironmentErrorsFatal ==
    (envKey = "unset" \/ inputDir \in {"missing", "unlistable"}) =>
        /\ pdfFiles = <<>> /\ status = <<>>
        /\ Ended => (exitCode # 0 /\ Len(ErrorReports) = 1)

\* C14: the batch run always completes with a count report: with the credential
\* present and the input and output locations accessible, a run that has ended has
\* ended normally, and its final output states the success and the failure count.
C14_CompletesWithCountReport ==
    (Ended /\ envKey = "set" /\ inputDir = "ok" /\ outputDir = "ok") =>
        /\ exitCode = 0
        /\ Len(report) = 2
        /\ report[1].label = "Successful exports"
        /\ report[2].label = "Failed files"

\* C15: the log handle is released on every exit path: when the process has ended
\* and the log stream had been opened, the stream has been ended.
C15_LogStreamReleased ==
    (Ended /\ logStream # "undefined") => logStream = "ended"

\* C16: a zero-result document is a warning: its last line is the warning line, no
\* error line and no table are written for it, and it is counted neither as a
\* success nor as a failure: the counters are the exported and the failed documents.
C16_ZeroResultIsWarning ==
    /\ \A p \in Positions :
         status[p] = "warned" =>
            (p \notin saved /\ docLog[p] = <<"analyzing", "warning">>)
    /\ successCount = Cardinality({ p \in Positions : status[p] = "exported" })
    /\ errorCount = Cardinality(FailedDocs)
    /\ saved = { p \in Positions : status[p] = "exported" }

\* C16 witness: a finished run with a zero-result document next to an exported and
\* a failed one.
C16_Witness ==
    /\ pc = "done"
    /\ \E p, q, r \in Positions :
         status[p] = "warned" /\ status[q] = "exported" /\ status[r] = "failed"

OutcomeLines == {"exported", "warning", "error"}
SummaryLines == {"summary", "successful", "failedFiles", "rule"}

\* The messages of the lines of the log file that carry document p's prefix.
LinesOf(p) ==
    LET sel == SelectSeq(logLines, LAMBDA l : l.doc = p)
    IN  [k \in 1..Len(sel) |-> sel[k].kind]

\* C17 (state part): the log file holds each document's lines whole and in the
\* order its task wrote them; nothing of a document follows a summary line, and a
\* finished run's log ends with the four summary lines.
LogOrderInv ==
    /\ \A p \in Positions : LinesOf(p) = docLog[p]
    /\ LinesOf(0) = SelectSeq(runLog, LAMBDA kind : kind \notin {"starting", "usage"})
    /\ \A j, k \in 1..Len(logLines) :
         (j < k /\ logLines[j].kind \in SummaryLines) => logLines[k].doc = 0
    /\ pc = "done" =>
         /\ Len(logLines) >= 4
         /\ SubSeq(logLines, Len(logLines) - 3, Len(logLines))
              = DocLines(0, <<"summary", "successful", "failedFiles", "rule">>)

\* C17 (step part): the step in which a task settles appends that document's lines,
\* ending with its outcome line, to the end of the log file as it then is.
LogOrderStep ==
    \A p \in Positions :
        (status[p] \notin Settled /\ status'[p] \in Settled) =>
            \E n \in 1..3 :
                /\ Len(logLines') = Len(logLines) + n
                /\ SubSeq(logLines', 1, Len(logLines)) = logLines
                /\ \A k \in (Len(logLines) + 1)..Len(logLines') : logLines'[k].doc = p
                /\ logLines'[Len(logLines')].kind \in OutcomeLines

\* C17: log ordering: each document's outcome lines are appended, as whole lines,
\* when its task settles, so they stand in completion order, and the summary lines
\* come after every document's lines.
C17_LogOrdering == [](LogOrderInv) /\ [][LogOrderStep]_vars

\* C17 witness: a finished run in which a later document's outcome line stands
\* before an earlier document's: the order is that of completion, not of the list.
C17_Witness ==
    /\ pc = "done"
    /\ \E j, k \in 1..Len(logLines) :
         /\ j < k
         /\ logLines[j].kind \in OutcomeLines /\ logLines[k].kind \in OutcomeLines
         /\ logLines[j].doc > logLines[k].doc

\* ------------------------------------------------------------------ claims, segmentation
Segmented ==
    \/ stage \in {"segmented", "awaiting", "done"}
    \/ stage = "failed" /\ pipeError \in {"inference", "cleaning"}

\* C18: document segmentation: once a document is segmented, a PDF of n pages has
\* given n units in page order, unit k a PDF document holding page k only, and an
\* image one unit, the image itself under its own media type; a document of any
\* other media kind given to the extraction fails as unsupported, with no unit and
\* no inference request.
C18_Segmentation ==
    /\ (Segmented /\ file.type = "application/pdf") =>
          /\ Len(parts) = file.pages
          /\ \A k \in 1..Len(parts) :
                parts[k] = [kind |-> "inlineData", mimeType |-> "application/pdf",
                            page |-> k]
    /\ (Segmented /\ IsImageType(file.type)) =>
          parts = <<[kind |-> "inlineData", mimeType |-> file.type, page |-> 0]>>
    /\ (/\ file.type # "application/pdf" /\ ~IsImageType(file.type)
        /\ entryPoint = "call" /\ apiKey /\ stage # "start")
          => (/\ stage = "failed" /\ pipeError = "unsupported"
              /\ parts = <<>> /\ requests = <<>>)
    /\ ~Segmented => parts = <<>>

\* C18 witness: a PDF of MaxPages pages has been segmented on the batch path, and
\* the units are as many.
C18_Witness ==
    /\ stage = "segmented" /\ path = "batch"
    /\ file.type = "application/pdf" /\ file.pages = MaxPages
    /\ Len(parts) = MaxPages

\* ------------------------------------------------------------------ claims, the web app
\* C12: validation errors are per document and never fatal: every selected file is a
\* valid one, every error entry names one rejected file (no file twice), and when a
\* selection left both valid files and error entries the analysis of the valid
\* files can be started.
C12_ValidationPerDocument ==
    /\ \A k \in 1..Len(selectedFiles) : ValidateFile(selectedFiles[k]).ok
    /\ \A k \in 1..Len(fileError) :
         /\ \E a \in 1..Len(AppFiles) :
              /\ AppFiles[a].name = fileError[k].name
              /\ ~ValidateFile(AppFiles[a]).ok
         /\ \A j \in 1..Len(fileError) : j # k => fileError[j].name # fileError[k].name
    /\ (Len(selectedFiles) > 0 /\ Len(fileError) > 0 /\ ~isLoading) => AnalyzeEnabled

\* The documents of analyzedData that hold records.
Contributing == { k \in 1..Len(analyzedData) : Len(analyzedData[k].bomItems) > 0 }
TableName(k) == BaseName(analyzedData[k].fileName) \o DotXlsx

\* C19: separate export: the archive handleExport fills holds one table for each
\* document that holds records: as many entries as such documents, no two of one
\* name, each named from a document's base name and holding exactly that document's
\* records; that archive is what is downloaded.
C19_SeparateExport ==
    /\ [][Len(exports') > Len(exports) =>
            LET zip == exports'[Len(exports')] IN
            /\ Len(zip) = Cardinality(Contributing)
            /\ \A j, k \in 1..Len(zip) : j # k => zip[j].name # zip[k].name
            /\ \A k \in Contributing :
                 \E e \in 1..Len(zip) :
                    /\ zip[e].name = TableName(k)
                    /\ zip[e].rows = analyzedData[k].bomItems]_vars
    /\ [][download'.kind = "zip" =>
            \E k \in 1..Len(exports) : download'.entries = exports[k]]_vars

DocIndex(item) == CHOOSE k \in 1..Len(analyzedData) : analyzedData[k].fileName = item.doc

\* C20: combined export: the single table holds every record of every document
\* once, in document order and, within a document, in extraction order; it is named
\* from the one document that holds records when there is exactly one, and by the
\* generic name otherwise.
C20_CombinedExport ==
    download.kind = "xlsx" =>
        LET rows == download.rows IN
        /\ { rows[k] : k \in 1..Len(rows) }
             = UNION { { analyzedData[d].bomItems[r] :
                           r \in 1..Len(analyzedData[d].bomItems) } :
                       d \in 1..Len(analyzedData) }
        /\ \A j, k \in 1..Len(rows) :
             j < k => \/ DocIndex(rows[j]) < DocIndex(rows[k])
                      \/ (rows[j].doc = rows[k].doc /\ rows[j].row < rows[k].row)
        /\ download.name =
             (IF Cardinality(Contributing) = 1
              THEN TableName(CHOOSE k \in Contributing : TRUE)
              ELSE GenericName)

\* C20 witness: a combined export of three documents of which the first and the
\* last hold records, one of them more than one.
C20_Witness ==
    /\ download.kind = "xlsx"
    /\ Cardinality(Contributing) = 2
    /\ \E k \in 1..Len(analyzedData) :
         k \notin Contributing /\ k - 1 \in Contributing /\ k + 1 \in Contributing
    /\ Len(download.rows) >= 3

\* ------------------------------------------------------------------ claims, the cleaning rules
\* The raw record at place k of the reply, as the cleaning copies it.
RawRecord(k) == SpreadOf(RawItems[k])
RawModelType(k) == StringOrEmpty(RawRecord(k)["modelType"])
RawDescription(k) == StringOrEmpty(RawRecord(k)["description"])

\* The document went through the web app's cleaning.
CleanedInteractive == stage = "done" /\ path = "interactive"

\* C21: normalization preserves cardinality and order: n candidate records give n
\* items, item k is what the cleaning gives record k taken alone, and the eight
\* fields no rule touches are those of record k.
C21_CardinalityAndOrder ==
    stage = "done" =>
        /\ Len(result) = Len(RawItems)
        /\ \A k \in 1..Len(result) :
             /\ result[k] = (IF path = "interactive"
                             THEN FinalQuantityCheck(NormalizeItem(RawItems[k]))
                             ELSE CleanItemBatch(RawItems[k]))
             /\ \A f \in Fields \ CleanedFields : result[k][f] = RawRecord(k)[f]

\* C21 witness: a reply of three elements, a null between two different records, was
\* cleaned into three items.
C21_Witness ==
    /\ CleanedInteractive /\ Len(result) = 3
    /\ RawItems[2] = JsonNull /\ RawItems[1] # RawItems[3]
    /\ result[1] # result[3] /\ result[2]["quantity"] = Num(1)

\* C22: SCRE/SCRD relocation: a raw modelType that case-folds to SCRE or SCRD leaves
\* the modelType empty; the description is unchanged when it already holds the token
\* (in any case), and else it is the raw modelType, a space and the old description
\* (the raw modelType alone when there was no description).
C22_ScreRelocation ==
    CleanedInteractive =>
        \A k \in 1..Len(result) :
            LET token == ToUpperCase(RawModelType(k)) IN
            token \in {SCRE, SCRD} =>
                /\ result[k]["modelType"] = Str(<<>>)
                /\ result[k]["description"] =
                     (IF Includes(ToUpperCase(RawDescription(k)), token)
                      THEN RawRecord(k)["description"]
                      ELSE IF RawDescription(k) = <<>> THEN Str(RawModelType(k))
                      ELSE Str(RawModelType(k) \o <<" ">> \o RawDescription(k)))

\* C22 witness: "scrd" was moved in front of the description "B".
C22_Witness ==
    /\ CleanedInteractive /\ Len(result) = 1
    /\ RawModelType(1) = <<"s", "c", "r", "d">> /\ RawDescription(1) = <<"B">>
    /\ result[1]["modelType"] = Str(<<>>)
    /\ result[1]["description"] = Str(<<"s", "c", "r", "d", " ", "B">>)

\* A text has white space between two of its tokens.
HasInnerSpace(s) == \E k \in 1..Len(Trim(s)) : Trim(s)[k] \in WhiteSpace
\* The protected token: without apostrophes and white space, and case-folded, the
\* text starts with MACHN.
IsProtected(s) == StartsWith(ToUpperCase(RemoveAposWs(s)), MACHN)

\* C23: multi-token split with MACH'N protection: a protected modelType with inner
\* white space is returned unchanged with its description; any other modelType with
\* inner white space keeps its first token, and the others follow the description,
\* joined by spaces; no returned modelType has inner white space unless protected.
C23_SplitWithProtection ==
    CleanedInteractive =>
        \A k \in 1..Len(result) :
            LET mt == RawModelType(k)
                tokens == SplitWs(Trim(mt))
                rest == JoinSpace(Tail(tokens))
            IN  /\ (HasInnerSpace(mt) /\ IsProtected(mt)) =>
                      /\ result[k]["modelType"] = RawRecord(k)["modelType"]
                      /\ result[k]["description"] = RawRecord(k)["description"]
                /\ (HasInnerSpace(mt) /\ ~IsProtected(mt)) =>
                      /\ result[k]["modelType"] = Str(SubSeq(Trim(mt), 1, TokenLen(Trim(mt))))
                      /\ result[k]["description"] =
                           (IF RawDescription(k) = <<>> THEN Str(rest)
                            ELSE Str(RawDescription(k) \o <<" ">> \o rest))
                /\ HasInnerSpace(StringOrEmpty(result[k]["modelType"])) =>
                      IsProtected(StringOrEmpty(result[k]["modelType"]))

\* C23 witness: "MACH'N A" was returned as it came, with its description "B".
C23_Witness ==
    /\ CleanedInteractive /\ Len(result) = 1
    /\ RawModelType(1) = <<"M", "A", "C", "H", "'", "N", " ", "A">>
    /\ result[1]["modelType"] = Str(<<"M", "A", "C", "H", "'", "N", " ", "A">>)
    /\ result[1]["description"] = Str(<<"B">>)

\* C24: length coercion: the raw length is trimmed and one trailing '.' is dropped;
\* if what remains parses as a number the number is stored, otherwise the trimmed
\* text is stored unchanged, and a missing length becomes the empty string.
C24_LengthCoercion ==
    stage = "done" =>
        \A k \in 1..Len(result) :
            LET trimmed == Trim(StringOrEmpty(RawRecord(k)["length"]))
                remains == IF EndsWithDot(trimmed) THEN SliceDropLast(trimmed) ELSE trimmed
                number == NumberOfString(remains)
            IN  result[k]["length"] =
                    (IF remains # <<>> /\ ~IsNaN(number) THEN number ELSE Str(trimmed))

\* C25: HEX canonicalization: a modelType that case-folds to exactly HEX is returned
\* as "HEX.", and a modelType that is "HEX." already is returned unchanged; the
\* description is unchanged in both cases.
C25_HexCanonical ==
    CleanedInteractive =>
        \A k \in 1..Len(result) :
            /\ ToUpperCase(RawModelType(k)) = HEX =>
                  /\ result[k]["modelType"] = Str(HEXDOT)
                  /\ result[k]["description"] = RawRecord(k)["description"]
            /\ RawModelType(k) = HEXDOT =>
                  /\ result[k]["modelType"] = RawRecord(k)["modelType"]
                  /\ result[k]["description"] = RawRecord(k)["description"]

\* C25 witness: "hex" was returned as "HEX.".
C25_Witness ==
    /\ CleanedInteractive /\ Len(result) = 1
    /\ RawModelType(1) = <<"h", "e", "x">>
    /\ result[1]["modelType"] = Str(HEXDOT)

\* ------------------------------------------------------------------ claims, the web app's state
CombineDisabled == IsCombineDisabled(analyzedData, selectedFiles)

\* C26: forced combine: while at most one document has contributed records (or, with
\* nothing analyzed, at most one file is selected) the combine flag is on once the
\* effect has run and no step turns it off, and a separate export is only ever
\* started from two or more contributing documents.
C26_ForcedCombine ==
    /\ []((CombineDisabled /\ ~effectPending) => combineExport)
    /\ [][(CombineDisabled /\ ~effectPending) => combineExport']_vars
    /\ [][Len(exports') > Len(exports) => Len(FilesWithBoms(analyzedData)) >= 2]_vars

\* An analysis settles while it is the only one in flight and the one the loading
\* state belongs to.
AnalysisSettles == isLoading /\ Len(analyses) = 1 /\ Len(analyses') = 0

\* C27: all-or-nothing analysis: when the analysis of the selected documents settles,
\* loading ends, and either the run failed, with the run-level error and no analyzed
\* data at all, or every document of the run has its entry, in selection order.
C27_AllOrNothing ==
    [][AnalysisSettles =>
         /\ isLoading' = FALSE
         /\ \/ error' = "failed" /\ analyzedData' = <<>>
            \/ /\ error' # "failed"
               /\ Len(analyzedData') = Len(analyses[1])
               /\ \A j \in 1..Len(analyses[1]) :
                    analyzedData'[j].fileName = analyses[1][j].name]_vars

\* C27 witness: the analysis of two or more documents failed: the error is shown,
\* nothing is published and loading has ended.
C27_Witness ==
    /\ Len(selectedFiles) >= 2 /\ analyses = <<>> /\ ~isLoading
    /\ error = "failed" /\ analyzedData = <<>>

\* C28: Restart discards in-flight work: an analysis that settles after Restart was
\* pressed, while no new analysis has been started (nothing is loading and the data
\* and the error are cleared), publishes neither data nor error.
C28_RestartDiscards ==
    [][(/\ analyses # <<>> /\ Len(analyses') < Len(analyses)
        /\ ~isLoading /\ analyzedData = <<>> /\ error = "none")
         => (analyzedData' = <<>> /\ error' = "none")]_vars

\* C29: latest selection wins: when the last validation in flight finishes, the
\* selected files and the validation errors are those of the latest selection.
C29_LatestSelectionWins ==
    [][(/\ Len(validations) = 1 /\ Len(validations') = 0 /\ latestFiles # <<>>)
         => (/\ selectedFiles' = ValidFiles(latestFiles)
             /\ fileError' = ErrorsOf(latestFiles))]_vars

\* ------------------------------------------------------------------ claims, progress indices
\* The lines of the log file that carry the prefix of a document of group g.
IsGroupLine(l, g) == l.doc > 0 /\ GroupOf(l.doc) = g

\* C30: progress indices follow launch order: a launched document's prefix carries
\* its position in the input list (so the indices are unique and at most N) and a
\* document not launched has none; in the log file the "Analyzing" lines of a group
\* stand in document order, one for each launched document, before every other line
\* of that group's documents.
C30_ProgressIndices ==
    /\ \A p \in Positions :
         /\ progress[p] = (IF status[p] = "pending" THEN 0 ELSE p)
         /\ progress[p] <= Len(pdfFiles)
         /\ \A q \in Positions : (p # q /\ progress[p] > 0) => progress[p] # progress[q]
    /\ fullLog =>
         /\ \A p \in Positions :
              status[p] # "pending" =>
                  Len(SelectSeq(logLines, LAMBDA l : l = Line(p, "analyzing"))) = 1
         /\ \A a, b \in 1..Len(logLines) :
              (/\ a < b /\ logLines[b].kind = "analyzing"
               /\ IsGroupLine(logLines[a], GroupOf(logLines[b].doc)))
                 => (logLines[a].kind = "analyzing" /\ logLines[a].doc < logLines[b].doc)

\* C30 witness: a run of two groups has ended; the documents of the first group
\* settled last document first, and the one document of the second group carries
\* the index after theirs, its "Analyzing" line coming after their outcome lines.
C30_Witness ==
    /\ fullLog /\ Len(pdfFiles) = BATCH_SIZE + 1 /\ Len(batches) = 2
    /\ filesProcessed = BATCH_SIZE + 1
    /\ \A p \in 1..(BATCH_SIZE + 1) : status[p] \in Settled /\ progress[p] = p
    /\ LET outcomes == SelectSeq(logLines, LAMBDA l : l.kind \in OutcomeLines)
           launches == SelectSeq(logLines,
                                 LAMBDA l : l.kind = "analyzing" \/ l.kind \in OutcomeLines)
       IN  /\ Len(outcomes) = BATCH_SIZE + 1
           /\ \A k \in 1..BATCH_SIZE : outcomes[k].doc = BATCH_SIZE + 1 - k
           /\ outcomes[BATCH_SIZE + 1].doc = BATCH_SIZE + 1
           /\ launches[2 * BATCH_SIZE + 1] = Line(BATCH_SIZE + 1, "analyzing")

====
